---- MODULE Spec2Model ----
(***************************************************************************)
(* Model of the SOP RAG backend (backend/app): the query pipeline of       *)
(* RAGEngine with the services it consults (CacheManager over Redis,       *)
(* EmbeddingService, VectorStore over ChromaDB, Reranker, LLMService), the *)
(* query API handlers, and the document deletion paths.                    *)
(*                                                                         *)
(* Encoding of Python values:                                              *)
(*   - a dict is a record (a function on its keys), so DOMAIN d is the set *)
(*     of keys and {} (no key) is the empty function <<>>;                 *)
(*   - a value that may be a list, a dict or None is wrapped:              *)
(*     [kind |-> "list", items |-> <<...>>], [kind |-> "dict", d |-> ...], *)
(*     [kind |-> "none"];                                                  *)
(*   - an absent Optional[str] is None (below); an absent Optional[int]    *)
(*     that is only read through `x or default` is 0;                      *)
(*   - a call that may raise returns [raised |-> BOOLEAN, ...].            *)
(***************************************************************************)
EXTENDS Integers, Sequences, FiniteSets, TLC

VARIABLES
    redis,       \* the Redis keyspace of CacheManager: key -> stored JSON text
    index,       \* VectorStore.collections: collection name -> set of chunk ids
    documents,   \* rows of the documents table (document ids)
    db_chunks,   \* rows of the chunks table (chunk ids)
    last,        \* the operation being answered and everything observed of it
    engine,      \* the ChunkingEngine: its chunk_size and chunk_overlap
    produced,    \* the call of the ChunkingEngine before the last one
    doc_columns, \* status and chunk counts of the documents rows, once written
    celery_queue, \* the generate_embeddings tasks queued and not yet run
    ws_manager   \* WebSocketManager: active_connections, client_subscriptions

vars == <<redis, index, documents, db_chunks, last, engine, produced,
          doc_columns, celery_queue, ws_manager>>

----------------------------------------------------------------------------
(* Bounds of the model *)

\* largest top_k / rerank_top_k a request carries
MaxTopK == 2
\* every text of up to MaxWords words is chunked
MaxWords == 12
\* longest chunk list validate_chunk_boundaries is given
MaxChunks == 2

(* Data of the model: the queries, chunks and documents that exist *)

None == "<None>"
Queries == {"q1", "q2"}
ChunkIds == {"c1", "c2", "c3"}
DocumentIds == {"d1", "d2"}

\* the document a chunk was cut from (metadata.document_id)
DocOf(c) == IF c \in {"c1", "c3"} THEN "d1" ELSE "d2"

\* the collection a chunk is indexed in: one collection per content modality
CollectionOf(c) == IF c \in {"c1", "c2"} THEN "text_chunks" ELSE "image_chunks"

\* len(chunk["content"]) and metadata.source_file / metadata.page_num.  With
\* their source markers c1 and c2 take 1519 + 2481 = max_chars characters;
\* c2 and c3 together take more, c1 and c3 less.
ContentLen(c) ==
    CASE c = "c1" -> 1500
      [] c = "c2" -> 2462
      [] OTHER -> 1600
SourceFile(c) == IF DocOf(c) = "d1" THEN "manual" ELSE "policy"
PageNum(c) == 0

\* cosine distance (in quarters) ChromaDB reports between a query embedding and
\* a chunk.  For q1, c1 and c3 (of different collections) tie; for q2, c3 of
\* the later collection is nearer than c1 of the earlier one.
Distance(text, c) ==
    IF text = "q1"
    THEN CASE c = "c1" -> 2 [] c = "c2" -> 3 [] OTHER -> 2
    ELSE CASE c = "c1" -> 3 [] c = "c2" -> 2 [] OTHER -> 1

----------------------------------------------------------------------------
(* Python helpers *)

PyNone == [kind |-> "none"]
PyList(s) == [kind |-> "list", items |-> s]
PyDict(d) == [kind |-> "dict", d |-> d]

\* `not v`
IsFalsy(v) ==
    \/ v.kind = "none"
    \/ v.kind = "list" /\ v.items = <<>>
    \/ v.kind = "dict" /\ DOMAIN v.d = {}

\* len(v) of a list or a dict
PyLen(v) == IF v.kind = "list" THEN Len(v.items) ELSE Cardinality(DOMAIN v.d)

Min(a, b) == IF a < b THEN a ELSE b

\* s[:k] of a list, k >= 0
Prefix(s, k) == SubSeq(s, 1, Min(k, Len(s)))

\* v[:k]: a list is sliced, a dict raises (TypeError / KeyError on the slice key)
PySliceWhole(v, k) ==
    IF v.kind = "list"
    THEN [raised |-> FALSE, value |-> v]
    ELSE [raised |-> TRUE, value |-> PyNone]

PySlice(v, k) ==
    IF v.kind = "list"
    THEN [raised |-> FALSE, value |-> PyList(Prefix(v.items, k))]
    ELSE [raised |-> TRUE, value |-> PyNone]

\* d[key] = value
SetItem(d, key, value) == (key :> value) @@ d

\* d.get(key, 0)
GetOr0(d, key) == IF key \in DOMAIN d THEN d[key] ELSE 0

\* list.sort(key=lambda x: x.get(field, 0), reverse=True): stable, equal keys
\* keep their order.  Insertion of each element before the first one whose
\* key is not greater.
UnstableInsertDesc(x, s, field) ==
    LET p == Cardinality({i \in 1..Len(s) : GetOr0(s[i], field) >= GetOr0(x, field)})
    IN  SubSeq(s, 1, p) \o <<x>> \o SubSeq(s, p + 1, Len(s))

InsertDesc(x, s, field) ==
    LET p == Cardinality({i \in 1..Len(s) : GetOr0(s[i], field) > GetOr0(x, field)})
    IN  SubSeq(s, 1, p) \o <<x>> \o SubSeq(s, p + 1, Len(s))

RECURSIVE SortReverse(_, _)
SortReverse(s, field) ==
    IF s = <<>> THEN <<>>
    ELSE InsertDesc(Head(s), SortReverse(Tail(s), field), field)

----------------------------------------------------------------------------
(* CacheManager (core/cache_manager.py) over Redis *)

\* hashlib.md5(value.encode()).hexdigest(): distinct digests for the
\* values of the model
Md5(value) ==
    CASE value = "q1" -> "9a1f"
      [] value = "q2" -> "03cd"
      [] OTHER -> "d41d"

\* f"{prefix}:{value_hash}", kept as the pair of its two parts
GetKey(prefix, value) == <<prefix, Md5(value)>>

\* json.dumps / json.loads of the values of the model (str, int, list, dict)
JsonDumps(v) == [json |-> v]
JsonLoads(s) == s.json

\* redis_client.keys(pattern) for a pattern "<prefix>:*"
RedisKeysAny(store, prefix) == DOMAIN store

RedisKeys(store, prefix) == {k \in DOMAIN store : k[1] = prefix}

\* redis_client.setex(key, ttl, value)
RedisSetnx(store, key, value) == store @@ (key :> value)

RedisSetex(store, key, value) == (key :> value) @@ store

\* redis_client.delete(*keys)
RedisDelete(store, keys) == [k \in DOMAIN store \ keys |-> store[k]]

\* get_cached_query_result(query): the stored value, or None
get_cached_query_result(store, query) ==
    LET key == GetKey("query", query)
    IN  IF key \in DOMAIN store THEN JsonLoads(store[key]) ELSE PyNone

\* cache_query_result(query, result): the keyspace afterwards
cache_query_result(store, query, result) ==
    RedisSetex(store, GetKey("query", query), JsonDumps(result))

\* invalidate_cache(pattern): the keyspace afterwards and the count deleted
invalidate_cache(store, prefix) ==
    LET keys == RedisKeys(store, prefix)
    IN  [store |-> RedisDelete(store, keys), deleted |-> Cardinality(keys)]

----------------------------------------------------------------------------
\* The methods of CacheManager with the outcome of their Redis command:
\* `fails` says that the command raises (Redis unreachable).  Each gives the
\* keyspace afterwards, the value returned and whether the method raised.

\* CacheManager(redis_host, redis_port): ping, and re-raise when it fails
cache_manager_init(store, fails) ==
    [store |-> store, value |-> PyNone, raised |-> fails]

\* cache_embedding(text, embedding)
cache_embedding(store, text, embedding, fails) ==
    IF fails THEN [store |-> store, value |-> FALSE, raised |-> FALSE]
    ELSE [store |-> RedisSetex(store, GetKey("embedding", text), JsonDumps(embedding)),
          value |-> TRUE, raised |-> FALSE]

\* get_cached_embedding(text): the vector, or None
get_cached_embedding(store, text, fails) ==
    LET key == GetKey("embedding", text)
    IN  [store |-> store,
         value |-> IF ~fails /\ key \in DOMAIN store
                   THEN PyList(JsonLoads(store[key])) ELSE PyNone,
         raised |-> FALSE]

\* cache_query_result(query, result) and get_cached_query_result(query)
cache_query_result_or_fail(store, query, result, fails) ==
    IF fails THEN [store |-> store, value |-> FALSE, raised |-> FALSE]
    ELSE [store |-> cache_query_result(store, query, result),
          value |-> TRUE, raised |-> FALSE]

get_cached_query_result_or_fail(store, query, fails) ==
    [store |-> store,
     value |-> IF fails THEN PyNone ELSE get_cached_query_result(store, query),
     raised |-> FALSE]

\* invalidate_cache(pattern): the number of keys deleted, 0 on an error
invalidate_cache_or_fail(store, prefix, fails) ==
    IF fails THEN [store |-> store, value |-> 0, raised |-> FALSE]
    ELSE [store |-> invalidate_cache(store, prefix).store,
          value |-> invalidate_cache(store, prefix).deleted, raised |-> FALSE]

\* clear_all(): flushdb
clear_all(store, fails) ==
    IF fails THEN [store |-> store, value |-> FALSE, raised |-> FALSE]
    ELSE [store |-> <<>>, value |-> TRUE, raised |-> FALSE]

\* get_cache_stats(): the dict built from info(), {} on an error
get_cache_stats(store, fails) ==
    [store |-> store,
     value |-> IF fails THEN PyDict(<<>>)
               ELSE PyDict([connected_clients |-> 1,
                            keyspace |-> Cardinality(DOMAIN store)]),
     raised |-> FALSE]

----------------------------------------------------------------------------

(* EmbeddingService.embed_text (core/embedding_service.py) *)

\* the vector of a text is identified by the text it encodes; [] on failure
embed_text_ignoring_failure(text, outcome) == <<text>>

embed_text(text, outcome) ==
    IF outcome = "fail" \/ text = "" THEN <<>> ELSE <<text>>

----------------------------------------------------------------------------
(* VectorStore (services/vector_store.py) over ChromaDB *)

collections_names ==
    <<"text_chunks", "image_chunks", "table_chunks", "composite_chunks">>

\* the fixed-point unit of the model's distances: the 1 of `1 - distance`
One == 4

\* collection.query(query_embeddings, n_results): the n nearest ids, nearest first
RECURSIVE ChromaQuery(_, _, _)
ChromaQuery(ids, emb, n) ==
    IF n = 0 \/ ids = {} THEN <<>>
    ELSE LET c == CHOOSE x \in ids :
                    \A y \in ids : Distance(emb[1], x) <= Distance(emb[1], y)
         IN  <<c>> \o ChromaQuery(ids \ {c}, emb, n - 1)

\* search(collection, query_embedding, top_k): the formatted results; an unknown
\* collection or a backend error gives []
search(idx, collection, query_embedding, top_k, backend_fails) ==
    IF collection \notin DOMAIN idx THEN <<>>
    ELSE IF backend_fails THEN <<>>
    ELSE LET ids == ChromaQuery(idx[collection], query_embedding, top_k)
         IN  [i \in 1..Len(ids) |->
                 [id |-> ids[i],
                  distance |-> Distance(query_embedding[1], ids[i]),
                  similarity |-> One - Distance(query_embedding[1], ids[i])]]

\* add_chunks(collection, chunks): the index afterwards
add_chunks(idx, collection, ids) ==
    IF collection \notin DOMAIN idx THEN idx
    ELSE [idx EXCEPT ![collection] = @ \cup ids]

\* delete_chunks(collection, chunk_ids): the index afterwards
delete_chunks(idx, collection, ids) ==
    IF collection \notin DOMAIN idx THEN idx
    ELSE [idx EXCEPT ![collection] = @ \ ids]

----------------------------------------------------------------------------
(* Reranker.rerank (core/reranker.py) *)

\* the threshold default of rerank
DefaultThreshold == 0

\* `c.get("relevance_score", 0) >= threshold`
AboveThresholdOnly(c, threshold) == GetOr0(c, "relevance_score") > threshold

AboveThreshold(c, threshold) == GetOr0(c, "relevance_score") >= threshold

\* rerank(query, chunks, top_k, threshold).  renv.mode: "no_model" (self.model
\* is None), "raises" (predict raises) or "ok" with renv.scores, the score
\* predict gives each content
rerank(chunks, top_k, threshold, renv) ==
    IF renv.mode = "no_model"
    THEN PySlice(chunks, top_k) @@ [calls |-> <<>>]
    ELSE IF IsFalsy(chunks)
    THEN [raised |-> FALSE, value |-> PyList(<<>>), calls |-> <<>>]
    ELSE IF chunks.kind # "list"
    \* iterating a dict gives its keys; str has no .get: caught, then v[:top_k]
    THEN PySlice(chunks, top_k) @@ [calls |-> <<>>]
    ELSE IF renv.mode = "raises"
    THEN PySlice(chunks, top_k) @@ [calls |-> << <<"predict", "">> >>]
    ELSE LET scored == [i \in 1..Len(chunks.items) |->
                           SetItem(chunks.items[i], "relevance_score",
                                   renv.scores[chunks.items[i].id])]
             sorted == SortReverse(scored, "relevance_score")
             Keep(c) == AboveThreshold(c, threshold)
             filtered == SelectSeq(sorted, Keep)
         IN  [raised |-> FALSE,
              value |-> PyList(Prefix(filtered, top_k)),
              calls |-> << <<"predict", "">> >>]

----------------------------------------------------------------------------
(* LLMService.generate (core/llm_service.py) *)

primary_model == "llama3.1:8b"
fallback_model == "mistral:7b"

\* the text Ollama returns for a model when the request succeeds
GeneratedText(model) == IF model = primary_model THEN "answer" ELSE "fallback answer"

\* generate(prompt, model): outs[n] is the outcome of the n-th HTTP request
\* made ("ok" or "fail": error status, connection error or timeout); posted
\* counts the requests made before this call.  The text and the models posted to.
generate_no_fallback(model_arg, outs, posted) ==
    LET model == IF model_arg \in {None, ""} THEN primary_model ELSE model_arg
    IN  IF outs[posted + 1] = "ok"
        THEN [text |-> GeneratedText(model), calls |-> << <<"llm", model>> >>]
        ELSE [text |-> "", calls |-> << <<"llm", model>> >>]

RECURSIVE generate(_, _, _)
generate(model_arg, outs, posted) ==
    LET model == IF model_arg \in {None, ""} THEN primary_model ELSE model_arg
    IN  IF outs[posted + 1] = "ok"
        THEN [text |-> GeneratedText(model), calls |-> << <<"llm", model>> >>]
        ELSE IF model # fallback_model
        THEN LET r == generate(fallback_model, outs, posted + 1)
             IN  [text |-> r.text, calls |-> << <<"llm", model>> >> \o r.calls]
        ELSE [text |-> "", calls |-> << <<"llm", model>> >>]

----------------------------------------------------------------------------
(* RAGEngine (core/rag_engine.py) *)

\* the default `collections` of retrieve_relevant_chunks
default_collections ==
    <<"text_chunks", "image_chunks", "table_chunks", "composite_chunks">>

\* the loop over the collections from the i-th on: each collection is searched,
\* its results are tagged with it and appended; a failure is local to its
\* iteration.  The results in order and the searches made.
RECURSIVE SearchAbortingOnFailure(_, _, _, _, _, _)
SearchAbortingOnFailure(idx, collections, emb, top_k, failing, i) ==
    IF i > Len(collections) \/ collections[i] \in failing
    THEN [results |-> <<>>, calls |-> <<>>]
    ELSE LET found == search(idx, collections[i], emb, top_k, FALSE)
             tagged == [j \in 1..Len(found) |->
                           SetItem(found[j], "source_collection", collections[i])]
             rest == SearchAbortingOnFailure(idx, collections, emb, top_k, failing, i + 1)
         IN  [results |-> tagged \o rest.results,
              calls |-> << <<"search", collections[i]>> >> \o rest.calls]

RECURSIVE SearchCollections(_, _, _, _, _, _)
SearchCollections(idx, collections, emb, top_k, failing, i) ==
    IF i > Len(collections)
    THEN [results |-> <<>>, calls |-> <<>>]
    ELSE LET found == search(idx, collections[i], emb, top_k, collections[i] \in failing)
             tagged == [j \in 1..Len(found) |->
                           SetItem(found[j], "source_collection", collections[i])]
             rest == SearchCollections(idx, collections, emb, top_k, failing, i + 1)
         IN  [results |-> tagged \o rest.results,
              calls |-> << <<"search", collections[i]>> >> \o rest.calls]

\* the cap of the merged list: all_results[:top_k * len(collections)]
CapPerQuery(all_results, top_k, collections) == Prefix(all_results, top_k)

Cap(all_results, top_k, collections) ==
    Prefix(all_results, top_k * Len(collections))

\* retrieve_relevant_chunks(query, top_k): the value returned (the cached value
\* on a hit), whether the cache was hit, and the calls made
retrieve_relevant_chunks(store, idx, query, top_k, env) ==
    LET collections == default_collections
        cached_results == get_cached_query_result(store, query)
        query_embedding == embed_text(query, env.embed)
        found == SearchCollections(idx, collections, query_embedding, top_k,
                                   env.failing, 1)
        all_results == SortReverse(found.results, "similarity")
    IN  IF ~IsFalsy(cached_results)
        THEN [value |-> cached_results, hit |-> TRUE,
              calls |-> << <<"cache_get", query>> >>]
        ELSE IF query_embedding = <<>>
        THEN [value |-> PyList(<<>>), hit |-> FALSE,
              calls |-> << <<"cache_get", query>>, <<"embed", query>> >>]
        ELSE [value |-> PyList(Cap(all_results, top_k, collections)), hit |-> FALSE,
              calls |-> << <<"cache_get", query>>, <<"embed", query>> >> \o found.calls]

\* rerank_results(query, chunks, top_k): reranker_service is the Reranker that
\* main.py constructs, so the service is always called for a non-empty input,
\* with the default threshold;
\* an exception of it is answered with chunks[:top_k], which raises for a dict
rerank_results(chunks, top_k, env) ==
    IF IsFalsy(chunks)
    THEN [raised |-> FALSE, value |-> PyList(<<>>), calls |-> <<>>]
    ELSE LET r == rerank(chunks, top_k, DefaultThreshold, env.rerank)
             calls == << <<"rerank", "">> >> \o r.calls
         IN  IF r.raised
             THEN PySlice(chunks, top_k) @@ [calls |-> calls]
             ELSE [raised |-> FALSE, value |-> r.value, calls |-> calls]

\* the max_chars default of _build_context_window
max_chars == 4000

\* len(f"[Source {i+1}: {source}]\n{content}") of the i-th chunk (1-based)
Digits(n) == IF n < 10 THEN 1 ELSE 2
ChunkTextLen(i, chunk) ==
    8 + Digits(i) + 2 + Len(SourceFile(chunk.id)) + 2 + ContentLen(chunk.id)

\* the loop of _build_context_window from the i-th chunk on: how many chunks
\* are in context_parts when it ends
RECURSIVE ContextParts(_, _, _)
ContextParts(chunks, i, current_length) ==
    IF i > Len(chunks) THEN i - 1
    ELSE IF current_length + ChunkTextLen(i, chunks[i]) > max_chars THEN i - 1
    ELSE ContextParts(chunks, i + 1, current_length + ChunkTextLen(i, chunks[i]))

RECURSIVE SumTextLen(_, _)
SumTextLen(chunks, n) ==
    IF n = 0 THEN 0 ELSE SumTextLen(chunks, n - 1) + ChunkTextLen(n, chunks[n])

\* _build_context_window(chunks): the chunks whose text is in the context, in
\* order, and len("\n\n".join(context_parts))
build_context_window(chunks) ==
    LET n == ContextParts(chunks, 1, 0)
    IN  [parts |-> [i \in 1..n |-> chunks[i].id],
         length |-> SumTextLen(chunks, n) + (IF n > 0 THEN 2 * (n - 1) ELSE 0)]

\* _extract_citations(chunks); content_preview is content[:200], kept as the
\* chunk it is cut from and its length
extract_citations_zero_based(chunks) ==
    [i \in 1..Len(chunks) |->
        [index |-> i - 1,
         source |-> SourceFile(chunks[i].id),
         page |-> PageNum(chunks[i].id),
         content_preview |-> <<chunks[i].id, Min(ContentLen(chunks[i].id), 200)>>]]

extract_citations(chunks) ==
    [i \in 1..Len(chunks) |->
        [index |-> i,
         source |-> SourceFile(chunks[i].id),
         page |-> PageNum(chunks[i].id),
         content_preview |-> <<chunks[i].id, Min(ContentLen(chunks[i].id), 200)>>]]

\* generate_response(query, context_chunks): (response, sources), the context
\* built and the calls made
generate_response(context_chunks, env) ==
    IF IsFalsy(context_chunks)
    THEN [response |-> "", sources |-> <<>>, calls |-> <<>>,
          context |-> build_context_window(<<>>)]
    ELSE LET g == generate("", env.llm, 0)
         IN  [response |-> g.text, sources |-> context_chunks.items,
              calls |-> g.calls,
              context |-> build_context_window(context_chunks.items)]

\* generate_with_citations(query, context_chunks): the result dict
generate_with_citations(context_chunks, env) ==
    LET g == generate_response(context_chunks, env)
    IN  [result |-> [response |-> g.response,
                     citations |-> extract_citations(g.sources),
                     num_sources |-> Len(g.sources)],
         calls |-> g.calls, context |-> g.context]

\* the dict answer_query returns when nothing was retrieved
NoChunksFallThrough(retrieved_chunks) ==
    [response |-> "",
     citations |-> <<>>,
     num_sources |-> 0,
     metadata |-> [retrieved_chunks |-> 0,
                   reranked_chunks |-> 0,
                   processing_time |-> 0]]

NoChunksResponse(retrieved_chunks) ==
    [response |-> "I couldn't find relevant information to answer your question.",
     citations |-> <<>>,
     num_sources |-> 0,
     metadata |-> [retrieved_chunks |-> 0,
                   reranked_chunks |-> 0,
                   processing_time |-> 0]]

\* the dict answer_query returns when an exception reaches its handler
ErrorResponse ==
    [response |-> "Error: <exception>",
     citations |-> <<>>,
     num_sources |-> 0,
     metadata |-> <<>>]

\* answer_query(query, top_k, rerank_top_k): the dict returned, and what was
\* observed on the way
answer_query(store, idx, query, top_k, rerank_top_k, env) ==
    LET r == retrieve_relevant_chunks(store, idx, query, top_k, env)
        retrieved_chunks == r.value
        rr == rerank_results(retrieved_chunks, rerank_top_k, env)
        reranked_chunks == rr.value
        g == generate_with_citations(reranked_chunks, env)
    IN  IF IsFalsy(retrieved_chunks)
        THEN [result |-> NoChunksResponse(retrieved_chunks), hit |-> r.hit,
              calls |-> r.calls,
              retrieved |-> retrieved_chunks, reranked |-> PyNone,
              context |-> build_context_window(<<>>)]
        ELSE IF rr.raised
        THEN [result |-> ErrorResponse, hit |-> r.hit,
              calls |-> r.calls \o rr.calls,
              retrieved |-> retrieved_chunks, reranked |-> PyNone,
              context |-> build_context_window(<<>>)]
        ELSE [result |-> SetItem(g.result, "metadata",
                           [retrieved_chunks |-> PyLen(retrieved_chunks),
                            reranked_chunks |-> PyLen(reranked_chunks),
                            query_length |-> Len(query)]),
              hit |-> r.hit,
              calls |-> r.calls \o rr.calls \o g.calls,
              retrieved |-> retrieved_chunks, reranked |-> reranked_chunks,
              context |-> g.context]

----------------------------------------------------------------------------
(* The query API (api/v1/query.py, schemas/query.py) *)

\* the required fields of the response models QueryResponse and Citation
QueryResponseFields == {"query", "response", "citations", "processing_time", "model"}
CitationFields == {"chunk_id", "source", "page", "confidence", "text"}

\* QueryResponse(**result) validates
ValidQueryResponse(result) ==
    /\ QueryResponseFields \subseteq DOMAIN result
    /\ \A i \in 1..Len(result.citations) :
           CitationFields \subseteq DOMAIN result.citations[i]

\* what is observed of a handler that answered before calling the engine
CacheReadFirst ==
    [result |-> <<>>, hit |-> FALSE, calls |-> << <<"cache_get", "">> >>,
     retrieved |-> PyNone, reranked |-> PyNone, context |-> build_context_window(<<>>)]

NotRun ==
    [result |-> <<>>, hit |-> FALSE, calls |-> <<>>, retrieved |-> PyNone,
     reranked |-> PyNone, context |-> build_context_window(<<>>)]

\* POST /query: the status, the body and what the engine did.  A request whose
\* query is the empty string fails the min_length of QueryRequest (422).
query(store, idx, request, env) ==
    LET query_text == request.query
        rerank_top_k == IF request.rerank_top_k # 0 THEN request.rerank_top_k
                        ELSE request.top_k
        a == answer_query(store, idx, query_text, request.top_k, rerank_top_k, env)
    IN  IF request.query = ""
        THEN [http |-> 422, body |-> <<>>, engine |-> NotRun]
        ELSE IF query_text = None
        THEN [http |-> 400, body |-> <<>>, engine |-> NotRun]
        ELSE IF ValidQueryResponse(a.result)
        THEN [http |-> 200, body |-> a.result, engine |-> a]
        ELSE [http |-> 500, body |-> <<>>, engine |-> a]

\* POST /query/retrieve
retrieve_chunks(store, idx, request, env) ==
    LET query_text == request.query
        r == retrieve_relevant_chunks(store, idx, query_text, request.top_k, env)
        rerank_top_k == IF request.rerank_top_k # 0 THEN request.rerank_top_k
                        ELSE request.top_k
        rr == rerank_results(r.value, rerank_top_k, env)
        seen == [result |-> <<>>, hit |-> r.hit, calls |-> r.calls,
                 retrieved |-> r.value, reranked |-> PyNone,
                 context |-> build_context_window(<<>>)]
    IN  IF request.query = ""
        THEN [http |-> 422, body |-> <<>>, engine |-> NotRun]
        ELSE IF query_text = None
        THEN [http |-> 400, body |-> <<>>, engine |-> NotRun]
        ELSE IF rerank_top_k # 0 /\ rerank_top_k < PyLen(r.value)
        THEN IF rr.raised
             THEN [http |-> 500, body |-> <<>>,
                   engine |-> [seen EXCEPT !.calls = r.calls \o rr.calls]]
             ELSE [http |-> 200,
                   body |-> [chunks |-> rr.value, count |-> PyLen(rr.value),
                             query |-> query_text],
                   engine |-> [seen EXCEPT !.calls = r.calls \o rr.calls,
                                           !.reranked = rr.value]]
        ELSE [http |-> 200,
              body |-> [chunks |-> r.value, count |-> PyLen(r.value),
                        query |-> query_text],
              engine |-> seen]

----------------------------------------------------------------------------
(* What the environment may do during one request *)

Range(s) == {s[i] : i \in 1..Len(s)}

\* the scores the cross-encoder gives the contents (logits: may be negative)
ScoreFns ==
    { [c \in ChunkIds |-> CASE c = "c1" -> 5 [] c = "c2" -> 0 - 3 [] OTHER -> 5],
      [c \in ChunkIds |-> CASE c = "c1" -> 0 - 1 [] c = "c2" -> 0 - 5 [] OTHER -> 0 - 2] }
NoScores == [c \in ChunkIds |-> 0]

RerankEnvs ==
    {[mode |-> "no_model", scores |-> NoScores], [mode |-> "raises", scores |-> NoScores]}
    \cup {[mode |-> "ok", scores |-> f] : f \in ScoreFns}

\* the collections whose search fails during one request: none, any one, or
\* the two that hold chunks
FailingSets ==
    {{}} \cup {{c} : c \in Range(default_collections)}
         \cup {{"text_chunks", "image_chunks"}}

\* the outcomes of the first and of the second request to Ollama
LLMOutcomes == {<<"ok", "ok">>, <<"fail", "ok">>, <<"fail", "fail">>}

Healthy ==
    [embed |-> "ok", failing |-> {},
     rerank |-> [mode |-> "no_model", scores |-> NoScores], llm |-> <<"ok", "ok">>]

\* when the embedding fails nothing after it is called, so one such
\* environment stands for all; the reranker's outcomes are drawn with an LLM
\* that answers, the LLM's outcomes with a reranker that has no model
Envs ==
    {[Healthy EXCEPT !.embed = "fail"]}
    \cup [embed : {"ok"}, failing : FailingSets, rerank : RerankEnvs,
          llm : {Healthy.llm}]
    \cup [embed : {"ok"}, failing : FailingSets, rerank : {Healthy.rerank},
          llm : LLMOutcomes]

\* requests that carry a query, and requests that carry none or an empty one
Requests ==
    [query : Queries, top_k : 1..MaxTopK, rerank_top_k : 0..MaxTopK]
BadRequests ==
    [query : {None, ""}, top_k : 1..MaxTopK, rerank_top_k : 0..MaxTopK]

\* retrieval alone never reaches the LLM
RetrieveEnvs == {e \in Envs : e.llm = Healthy.llm}

\* the values a caller of cache_query_result stores: an answer dict, or the
\* chunk list retrieve_relevant_chunks hands out on a hit
CachedValues ==
    { PyDict([response |-> "Test answer", citations |-> <<>>]),
      PyList(<< [id |-> "c2", distance |-> 1, similarity |-> 3,
                 source_collection |-> "text_chunks"] >>) }

----------------------------------------------------------------------------
(* ChunkingEngine (core/chunking_engine.py) *)

\* A str of the model: `spaces` blanks, then `words` words of `wordlen`
\* characters each, joined by single blanks (" ".join(["word"] * 100) of the
\* tests).  "" has no blank and no word.
Text(spaces, words, wordlen) ==
    [spaces |-> spaces, words |-> words, wordlen |-> IF words = 0 THEN 0 ELSE wordlen]

Max(a, b) == IF a > b THEN a ELSE b

\* len(text.strip()), len(text) and len(text.split())
StrippedLen(text) ==
    IF text.words = 0 THEN 0 ELSE text.words * text.wordlen + (text.words - 1)
StrLen(text) == text.spaces + StrippedLen(text)
SplitLen(text) == text.words

\* " ".join(words[i:j]) for the words of a text (i, j offsets from 0)
JoinWords(text, i, j) == Text(0, Max(0, Min(j, text.words) - i), text.wordlen)

\* A table of the model: `rows` rows (the header row included) of `cols`
\* cells, each cell `cellwords` words of 4 characters; the text of a chunk of
\* it is the header line and `rows` data lines
TableText(rows, cols, cellwords) ==
    [kind |-> "table", rows |-> rows, cols |-> cols, cellwords |-> cellwords]

\* len(" | ".join(row)) and len(" | ".join(row).split()) of one row
RowLen(table) == table.cols * 4 * table.cellwords + 3 * Max(0, table.cols - 1)
RowTokens(table) == table.cols * table.cellwords + Max(0, table.cols - 1)

\* len(content) and len(content.split()) of a chunk's content
ContentChars(content) ==
    IF "kind" \in DOMAIN content
    THEN (content.rows + 1) * RowLen(content) + content.rows
    ELSE StrLen(content)
ContentTokens(content) ==
    IF "kind" \in DOMAIN content
    THEN (content.rows + 1) * RowTokens(content)
    ELSE SplitLen(content)

\* content[:100]: the content itself when it is that short; otherwise its
\* first 100 characters, which its layout determines
ContentPrefix(content) ==
    IF ContentChars(content) <= 100 THEN content
    ELSE IF "kind" \in DOMAIN content
    THEN [cut |-> 100, cols |-> content.cols, cellwords |-> content.cellwords]
    ELSE [cut |-> 100, spaces |-> content.spaces, wordlen |-> content.wordlen]

\* str(n) of a position, as its characters
Digit(d) == <<"0", "1", "2", "3", "4", "5", "6", "7", "8", "9">>[d + 1]
RECURSIVE Str(_)
Str(n) == IF n < 10 THEN <<Digit(n)>> ELSE Str(n \div 10) \o <<Digit(n % 10)>>

\* s.replace(old, new) on the characters of s
Replace(s, old, new) == [i \in 1..Len(s) |-> IF s[i] = old THEN new ELSE s[i]]

\* _generate_chunk_id(document_id, position, content): the characters up to
\* the hash, and the hash (8 hex digits, which hold no "/" and no "_", so two
\* ids are equal exactly when both parts are); distinct prefixes get distinct
\* digests
generate_chunk_id(document_id, position, content) ==
    [head |-> Replace(document_id \o <<"_">> \o Str(position) \o <<"_">>, "/", "_"),
     hash |-> <<"md5", ContentPrefix(content)>>]

\* `if len(chunk_words_slice) < 10: continue`
SkipEmptyWindow(slice_len) == slice_len < 1

SkipWindow(slice_len) == slice_len < 10

\* overlap_words and chunk_words of chunk_text for a text of n words; the
\* quotients chunk_overlap / chunk_size of the engines of the model are exact
\* in floating point, so int(...) is the integer quotient
overlap_words(eng, n) == Max(1, (eng.chunk_overlap * n) \div eng.chunk_size)
chunk_words(eng, n) == Max(50, (eng.chunk_size * n) \div eng.chunk_size)

\* the loop of chunk_text from offset i on: range(0, len(words), step)
RECURSIVE TextWindows(_, _, _, _)
TextWindows(eng, text, document_id, i) ==
    LET n == SplitLen(text)
        step == chunk_words(eng, n) - overlap_words(eng, n)
        end == Min(i + chunk_words(eng, n), n)
        content == JoinWords(text, i, i + chunk_words(eng, n))
        chunk == [chunk_id |-> generate_chunk_id(document_id, i, content),
                  content |-> content,
                  chunk_type |-> "text",
                  token_count |-> end - i,
                  metadata |-> [chunk_start_word |-> i, chunk_end_word |-> end]]
    IN  IF i >= n THEN <<>>
        ELSE (IF SkipWindow(end - i) THEN <<>> ELSE <<chunk>>)
                 \o TextWindows(eng, text, document_id, i + step)

\* chunk_text(text, document_id): the chunks returned
chunk_text(eng, text, document_id) ==
    IF StrLen(text) = 0 \/ StrippedLen(text) < 10 THEN <<>>
    ELSE TextWindows(eng, text, document_id, 0)

\* the loop of chunk_table from row i on: range(1, len(table_data), rows_per_chunk)
RECURSIVE TableWindows(_, _, _, _)
TableWindows(eng, table, document_id, i) ==
    LET rows_per_chunk == Max(5, eng.chunk_size \div 50)
        end == Min(i + rows_per_chunk, table.rows)
        content == TableText(end - i, table.cols, table.cellwords)
        chunk == [chunk_id |-> generate_chunk_id(document_id, i, content),
                  content |-> content,
                  chunk_type |-> "table",
                  token_count |-> ContentTokens(content),
                  metadata |-> [table_start_row |-> i, table_end_row |-> end]]
    IN  IF i >= table.rows THEN <<>>
        ELSE <<chunk>> \o TableWindows(eng, table, document_id, i + rows_per_chunk)

\* chunk_table(table_data, document_id)
chunk_table(eng, table, document_id) ==
    IF table.rows < 2 THEN <<>> ELSE TableWindows(eng, table, document_id, 1)

\* chunk_image(image_caption, image_id): the chunk, or nothing for None
chunk_image(eng, image_caption, image_id) ==
    IF StrLen(image_caption) = 0 \/ StrippedLen(image_caption) < 3 THEN <<>>
    ELSE << [chunk_id |-> [head |-> <<"i", "m", "g", "_">> \o image_id, hash |-> <<>>],
             content |-> image_caption,
             chunk_type |-> "image",
             token_count |-> SplitLen(image_caption),
             metadata |-> [image_id |-> image_id]] >>

\* chunk_composite(content, components, document_id)
chunk_composite(eng, content, components, document_id) ==
    << [chunk_id |-> generate_chunk_id(document_id, 0, content),
        content |-> content,
        chunk_type |-> "composite",
        token_count |-> SplitLen(content),
        metadata |-> [components |-> components]] >>

\* `not chunk.content or len(chunk.content.strip()) < 3`
EmptyContent(content) == StrLen(content) = 0 \/ StrippedLen(content) < 3

\* the loop of validate_chunk_boundaries from the i-th chunk on, with the ids
\* seen before it; a chunk of fewer than 5 tokens is logged and passed
RECURSIVE ValidateFrom(_, _, _)
ValidateFrom(chunks, i, seen_ids) ==
    IF i > Len(chunks) THEN TRUE
    ELSE IF EmptyContent(chunks[i].content) THEN FALSE
    ELSE IF chunks[i].chunk_id \in seen_ids THEN FALSE
    ELSE ValidateFrom(chunks, i + 1, seen_ids \cup {chunks[i].chunk_id})

\* validate_chunk_boundaries(chunks)
validate_chunk_boundaries(chunks) ==
    IF chunks = <<>> THEN TRUE ELSE ValidateFrom(chunks, 1, {})

\* ChunkingEngine(): chunk_size = 512, chunk_overlap = 50
DefaultEngine == [chunk_size |-> 512, chunk_overlap |-> 50]

----------------------------------------------------------------------------
(* The state machine of the query side *)

Idle == [op |-> "idle"]

Init ==
    /\ redis = <<>>
    /\ index = [c \in Range(collections_names) |-> {}]
    /\ documents = {}
    /\ db_chunks = {}
    /\ last = Idle
    /\ engine = DefaultEngine
    /\ produced = Idle
    /\ doc_columns = <<>>
    /\ celery_queue = <<>>
    /\ ws_manager = [active_connections |-> {}, client_subscriptions |-> <<>>]

\* VectorStore.add_chunks of one chunk into the collection of its modality
AddChunks(c) ==
    /\ last = Idle
    /\ index' = add_chunks(index, CollectionOf(c), {c})
    /\ UNCHANGED <<doc_columns, celery_queue, ws_manager, engine, produced, redis, documents, db_chunks, last>>

\* CacheManager.cache_query_result
CacheQueryResult(q, v) ==
    /\ last = Idle
    /\ redis' = cache_query_result(redis, q, v)
    /\ UNCHANGED <<doc_columns, celery_queue, ws_manager, engine, produced, index, documents, db_chunks, last>>

\* the TTL of a key set with setex runs out
Expire(k) ==
    /\ last = Idle
    /\ k \in DOMAIN redis
    /\ redis' = RedisDelete(redis, {k})
    /\ UNCHANGED <<doc_columns, celery_queue, ws_manager, engine, produced, index, documents, db_chunks, last>>

\* POST /query
Query(request, env) ==
    /\ last = Idle
    /\ last' = [op |-> "query", request |-> request, env |-> env]
                   @@ query(redis, index, request, env)
    /\ UNCHANGED <<doc_columns, celery_queue, ws_manager, engine, produced, redis, index, documents, db_chunks>>

\* POST /query/retrieve
Retrieve(request, env) ==
    /\ last = Idle
    /\ last' = [op |-> "retrieve", request |-> request, env |-> env]
                   @@ retrieve_chunks(redis, index, request, env)
    /\ UNCHANGED <<doc_columns, celery_queue, ws_manager, engine, produced, redis, index, documents, db_chunks>>

\* LLMService.generate called with a model of the caller's choice
Generate(model, outs) ==
    /\ last = Idle
    /\ last' = [op |-> "generate", model |-> model, outs |-> outs]
                   @@ generate(model, outs, 0)
    /\ UNCHANGED <<doc_columns, celery_queue, ws_manager, engine, produced, redis, index, documents, db_chunks>>

\* the answer is handed to the caller; the next operation may start
Complete ==
    /\ last # Idle
    /\ last' = Idle
    /\ UNCHANGED <<doc_columns, celery_queue, ws_manager, engine, produced, redis, index, documents, db_chunks>>

Next ==
    \/ \E c \in ChunkIds : AddChunks(c)
    \/ \E q \in Queries, v \in CachedValues : CacheQueryResult(q, v)
    \/ \E k \in DOMAIN redis : Expire(k)
    \/ \E request \in Requests, env \in Envs : Query(request, env)
    \/ \E request \in BadRequests : Query(request, Healthy)
    \/ \E request \in Requests, env \in RetrieveEnvs : Retrieve(request, env)
    \/ \E request \in BadRequests : Retrieve(request, Healthy)
    \/ \E model \in {None, primary_model, fallback_model, "phi3:mini"},
          outs \in LLMOutcomes : Generate(model, outs)
    \/ Complete

Spec == Init /\ [][Next]_vars

----------------------------------------------------------------------------
(* Document deletion (crud.py, api/v1/documents.py) *)

\* the chunk rows of a document
ChunkRows(rows, document_id) == {c \in rows : DocOf(c) = document_id}

\* the loop of delete_with_embeddings over collections_names from the i-th on;
\* a collection whose backend fails keeps its vectors (delete_chunks gives False)
RECURSIVE DeleteFromCollections(_, _, _, _)
DeleteFromCollections(idx, chunk_ids, failing, i) ==
    IF i > Len(collections_names) THEN idx
    ELSE DeleteFromCollections(
             IF collections_names[i] \in failing THEN idx
             ELSE delete_chunks(idx, collections_names[i], chunk_ids),
             chunk_ids, failing, i + 1)

\* DocumentCRUD.delete_with_embeddings(db, document_id, vector_store,
\* cache_manager): the stores afterwards and the tuple returned.  denv says
\* which handles are passed and which backends fail.
delete_with_embeddings(docs, rows, idx, store, document_id, denv) ==
    LET chunk_ids == ChunkRows(rows, document_id)
        chunk_count == Cardinality(chunk_ids)
    IN  IF document_id \notin docs
        THEN [documents |-> docs, db_chunks |-> rows, index |-> idx, redis |-> store,
              success |-> FALSE, count |-> 0]
        ELSE [documents |-> docs \ {document_id},
              db_chunks |-> rows \ chunk_ids,
              index |-> IF denv.vector_store /\ chunk_ids # {}
                        THEN DeleteFromCollections(idx, chunk_ids, denv.failing, 1)
                        ELSE idx,
              redis |-> IF denv.cache_manager /\ ~denv.cache_fails
                        THEN invalidate_cache(store, "query").store
                        ELSE store,
              success |-> TRUE, count |-> chunk_count]

\* DocumentCRUD.delete(db, document_id): the rows afterwards (the chunks of the
\* document go with it: cascade="all, delete-orphan")
crud_delete(docs, rows, document_id) ==
    IF document_id \in docs
    THEN [documents |-> docs \ {document_id},
          db_chunks |-> rows \ ChunkRows(rows, document_id), found |-> TRUE]
    ELSE [documents |-> docs, db_chunks |-> rows, found |-> FALSE]

DeleteEnvs ==
    [vector_store : BOOLEAN, cache_manager : BOOLEAN, cache_fails : BOOLEAN,
     failing : FailingSets]

\* DocumentCRUD.create
CreateDocument(d) ==
    /\ last = Idle
    /\ d \notin documents
    /\ documents' = documents \cup {d}
    /\ UNCHANGED <<doc_columns, celery_queue, ws_manager, engine, produced, redis, index, db_chunks, last>>

\* ChunkCRUD.create of a chunk of an existing document
CreateChunk(c) ==
    /\ last = Idle
    /\ DocOf(c) \in documents
    /\ c \notin db_chunks
    /\ db_chunks' = db_chunks \cup {c}
    /\ UNCHANGED <<doc_columns, celery_queue, ws_manager, engine, produced, redis, index, documents, last>>

\* DELETE /documents/{document_id}
DeleteDocument(d) ==
    /\ last = Idle
    /\ LET r == crud_delete(documents, db_chunks, d)
       IN  /\ documents' = r.documents
           /\ db_chunks' = r.db_chunks
           /\ last' = [op |-> "delete_document", document_id |-> d,
                       http |-> IF d \in documents THEN 200 ELSE 404]
    /\ UNCHANGED <<doc_columns, celery_queue, ws_manager, engine, produced, redis, index>>

\* DocumentCRUD.delete_with_embeddings
DeleteWithEmbeddings(d, denv) ==
    /\ last = Idle
    /\ LET r == delete_with_embeddings(documents, db_chunks, index, redis, d, denv)
       IN  /\ documents' = r.documents
           /\ db_chunks' = r.db_chunks
           /\ index' = r.index
           /\ redis' = r.redis
           /\ last' = [op |-> "delete_with_embeddings", document_id |-> d,
                       denv |-> denv, success |-> r.success, count |-> r.count]
    /\ UNCHANGED <<doc_columns, celery_queue, ws_manager, engine, produced>>

NextDelete ==
    \/ \E d \in DocumentIds : CreateDocument(d)
    \/ \E c \in ChunkIds : CreateChunk(c)
    \/ \E c \in ChunkIds : AddChunks(c)
    \/ \E q \in Queries, v \in CachedValues : CacheQueryResult(q, v)
    \/ \E d \in DocumentIds : DeleteDocument(d)
    \/ \E d \in DocumentIds, denv \in DeleteEnvs : DeleteWithEmbeddings(d, denv)
    \/ Complete

SpecDelete == Init /\ [][NextDelete]_vars

----------------------------------------------------------------------------
(* The ChunkingEngine at work *)

\* the engines constructed: the default one and two small ones, all with
\* chunk_overlap < chunk_size
Engines ==
    {DefaultEngine, [chunk_size |-> 16, chunk_overlap |-> 4],
     [chunk_size |-> 16, chunk_overlap |-> 12]}

\* the word counts of the texts chunked: every count up to MaxWords, and some
\* around the 50-word window and beyond chunk_size
WordCounts == 0..MaxWords \cup {49, 50, 60, 120, 513, 1000}

\* "", blank strings, "one two", one long word, and texts of 4-letter words
Texts ==
    {Text(0, n, 4) : n \in WordCounts}
    \cup {Text(0, 2, 3), Text(0, 1, 12), Text(3, 0, 0), Text(12, 0, 0), Text(2, 12, 4)}

\* captions and composite contents
ShortTexts == {t \in Texts : t.words <= 3 \/ t.words = 60}

\* tables of up to 12 rows
Tables ==
    [rows : {0, 1, 2, 6, 7, 12}, cols : 0..2, cellwords : 0..1]

\* document ids and image ids as characters
DocumentIdStrings == {<<"d", "1">>, <<"a", "/", "b">>, <<"a", "_", "b">>}
ImageIds == {<<"p", "1">>, <<"p", "2">>}

\* ChunkingEngine(chunk_size, chunk_overlap).  An engine is followed for two
\* calls: `produced` is the first of them once the second is made.
NewEngine(e) ==
    /\ engine' = e
    /\ last' = Idle
    /\ produced' = Idle
    /\ UNCHANGED <<doc_columns, celery_queue, ws_manager, redis, index, documents, db_chunks>>

\* engine.chunk_text(text, document_id)
ChunkText(text, document_id) ==
    /\ produced = Idle
    /\ last' = [op |-> "chunk_text", text |-> text, document_id |-> document_id,
                chunks |-> chunk_text(engine, text, document_id)]
    /\ produced' = last
    /\ UNCHANGED <<doc_columns, celery_queue, ws_manager, redis, index, documents, db_chunks, engine>>

\* engine.chunk_table(table_data, document_id)
ChunkTable(table, document_id) ==
    /\ produced = Idle
    /\ last' = [op |-> "chunk_table", table |-> table, document_id |-> document_id,
                chunks |-> chunk_table(engine, table, document_id)]
    /\ produced' = last
    /\ UNCHANGED <<doc_columns, celery_queue, ws_manager, redis, index, documents, db_chunks, engine>>

\* engine.chunk_image(image_caption, image_id)
ChunkImage(image_caption, image_id) ==
    /\ produced = Idle
    /\ last' = [op |-> "chunk_image", text |-> image_caption, image_id |-> image_id,
                chunks |-> chunk_image(engine, image_caption, image_id)]
    /\ produced' = last
    /\ UNCHANGED <<doc_columns, celery_queue, ws_manager, redis, index, documents, db_chunks, engine>>

\* engine.chunk_composite(content, components, document_id)
ChunkComposite(content, components, document_id) ==
    /\ produced = Idle
    /\ last' = [op |-> "chunk_composite", text |-> content,
                document_id |-> document_id,
                chunks |-> chunk_composite(engine, content, components, document_id)]
    /\ produced' = last
    /\ UNCHANGED <<doc_columns, celery_queue, ws_manager, redis, index, documents, db_chunks, engine>>

\* the chunks handed to validate_chunk_boundaries: ids x and y; contents "",
\* "   ", "ab", "abc" and a text of 5 words; token_count = len(content.split())
SampleChunks ==
    {[chunk_id |-> id, content |-> c, chunk_type |-> "text",
      token_count |-> SplitLen(c), metadata |-> <<>>] :
        id \in {"x", "y"},
        c \in {Text(0, 0, 0), Text(3, 0, 0), Text(0, 1, 2), Text(0, 1, 3), Text(0, 5, 4)}}

\* the chunk lists of up to MaxChunks chunks
ChunkLists == UNION {[1..n -> SampleChunks] : n \in 0..MaxChunks}

\* engine.validate_chunk_boundaries(chunks)
ValidateChunkBoundaries(chunks) ==
    /\ produced = Idle
    /\ last' = [op |-> "validate_chunk_boundaries", chunk_list |-> chunks,
                valid |-> validate_chunk_boundaries(chunks)]
    /\ produced' = last
    /\ UNCHANGED <<doc_columns, celery_queue, ws_manager, redis, index, documents, db_chunks, engine>>

NextChunk ==
    \/ \E e \in Engines : NewEngine(e)
    \/ \E text \in Texts, d \in DocumentIdStrings : ChunkText(text, d)
    \/ \E table \in Tables, d \in DocumentIdStrings : ChunkTable(table, d)
    \/ \E caption \in ShortTexts, image_id \in ImageIds : ChunkImage(caption, image_id)
    \/ \E content \in ShortTexts, d \in DocumentIdStrings :
           ChunkComposite(content, <<"text", "image">>, d)
    \/ \E chunks \in ChunkLists : ValidateChunkBoundaries(chunks)

SpecChunk == Init /\ [][NextChunk]_vars

----------------------------------------------------------------------------
(* The Reranker at work *)

\* a candidate as VectorStore.search formats it (for the query q1) and
\* retrieve_relevant_chunks tags it
Candidate(c) ==
    [id |-> c, distance |-> Distance("q1", c), similarity |-> One - Distance("q1", c),
     source_collection |-> CollectionOf(c)]

\* the candidate lists: the chunks of the model, any number of them in any order
CandidateLists ==
    {PyList([i \in 1..Len(s) |-> Candidate(s[i])]) :
        s \in {t \in UNION {[1..n -> ChunkIds] : n \in 0..Cardinality(ChunkIds)} :
                  \A i, j \in 1..Len(t) : i # j => t[i] # t[j]}}

\* the thresholds a caller passes: the default, a negative one, and the
\* largest score of ScoreFns
Thresholds == {DefaultThreshold, 0 - 2, 5}

\* reranker.rerank(query, chunks, top_k, threshold)
Rerank(chunks, top_k, threshold, renv) ==
    /\ last = Idle
    /\ last' = [op |-> "rerank", chunks |-> chunks, top_k |-> top_k,
                threshold |-> threshold, renv |-> renv]
                   @@ rerank(chunks, top_k, threshold, renv)
    /\ UNCHANGED <<doc_columns, celery_queue, ws_manager, engine, produced, redis, index, documents, db_chunks>>

NextRerank ==
    \/ \E chunks \in CandidateLists, top_k \in 0..MaxTopK,
          threshold \in Thresholds, renv \in RerankEnvs :
           Rerank(chunks, top_k, threshold, renv)
    \/ Complete

SpecRerank == Init /\ [][NextRerank]_vars

----------------------------------------------------------------------------

(* The CacheManager at work *)

\* the vectors cached: [], and two vectors of two components
Vectors == {<<>>, <<1, 2>>, <<3, 4>>}

\* one call of a method of CacheManager (or of its constructor): `call` is
\* the method's outcome on the keyspace
CacheCall(op, args, fails, call) ==
    /\ last = Idle
    /\ redis' = call.store
    /\ last' = [op |-> op, args |-> args, fails |-> fails, before |-> redis,
                value |-> call.value, raised |-> call.raised]
    /\ UNCHANGED <<doc_columns, celery_queue, ws_manager, engine, produced, index, documents, db_chunks>>

NewCacheManager(fails) ==
    CacheCall("CacheManager", <<>>, fails, cache_manager_init(redis, fails))

CacheEmbedding(text, embedding, fails) ==
    CacheCall("cache_embedding", <<text, embedding>>, fails,
              cache_embedding(redis, text, embedding, fails))

GetCachedEmbedding(text, fails) ==
    CacheCall("get_cached_embedding", <<text>>, fails,
              get_cached_embedding(redis, text, fails))

CacheQueryResultCall(query_text, result, fails) ==
    CacheCall("cache_query_result", <<query_text, result>>, fails,
              cache_query_result_or_fail(redis, query_text, result, fails))

GetCachedQueryResult(query_text, fails) ==
    CacheCall("get_cached_query_result", <<query_text>>, fails,
              get_cached_query_result_or_fail(redis, query_text, fails))

InvalidateCache(prefix, fails) ==
    CacheCall("invalidate_cache", <<prefix>>, fails,
              invalidate_cache_or_fail(redis, prefix, fails))

ClearAll(fails) ==
    CacheCall("clear_all", <<>>, fails, clear_all(redis, fails))

GetCacheStats(fails) ==
    CacheCall("get_cache_stats", <<>>, fails, get_cache_stats(redis, fails))

NextCache ==
    \/ \E fails \in BOOLEAN : NewCacheManager(fails)
    \/ \E text \in Queries, embedding \in Vectors, fails \in BOOLEAN :
           CacheEmbedding(text, embedding, fails)
    \/ \E text \in Queries, fails \in BOOLEAN : GetCachedEmbedding(text, fails)
    \/ \E q \in Queries, v \in CachedValues, fails \in BOOLEAN :
           CacheQueryResultCall(q, v, fails)
    \/ \E q \in Queries, fails \in BOOLEAN : GetCachedQueryResult(q, fails)
    \/ \E prefix \in {"query", "embedding"}, fails \in BOOLEAN :
           InvalidateCache(prefix, fails)
    \/ \E fails \in BOOLEAN : ClearAll(fails)
    \/ \E fails \in BOOLEAN : GetCacheStats(fails)
    \/ \E k \in DOMAIN redis : Expire(k)
    \/ Complete

SpecCache == Init /\ [][NextCache]_vars

----------------------------------------------------------------------------

(* Document ingestion (tasks/document_tasks.py) *)

\* the columns of a documents row: what was written to it, or the defaults of
\* the model (status "pending", counts 0)
DefaultColumns == [status |-> "pending", text_chunks |-> 0, total_chunks |-> 0]
ColumnsOf(cols, d) == IF d \in DOMAIN cols THEN cols[d] ELSE DefaultColumns

\* DocumentCRUD.update_status(db, document_id, status): only an existing row
\* is written
update_status(cols, docs, d, status) ==
    IF d \in docs
    THEN (d :> [ColumnsOf(cols, d) EXCEPT !.status = status]) @@ cols
    ELSE cols

\* DocumentCRUD.update_chunk_counts(db, document_id, text_chunks, 0, 0)
update_chunk_counts(cols, docs, d, text_chunks) ==
    IF d \in docs
    THEN (d :> [ColumnsOf(cols, d) EXCEPT !.text_chunks = text_chunks,
                                          !.total_chunks = text_chunks]) @@ cols
    ELSE cols

\* process_document(document_id, file_path): `chunks` is what chunk_text made
\* of the extracted text.  A missing file raises: status "error", nothing
\* queued.  Otherwise the counts and "processing" are written and
\* generate_embeddings is queued with the chunks.
process_document(cols, docs, queue, d, chunks, file_exists) ==
    IF ~file_exists
    THEN [doc_columns |-> update_status(cols, docs, d, "error"),
          celery_queue |-> queue, raised |-> TRUE]
    ELSE [doc_columns |->
              update_status(update_chunk_counts(cols, docs, d, Len(chunks)),
                            docs, d, "processing"),
          celery_queue |-> Append(queue, [document_id |-> d, chunks |-> chunks]),
          raised |-> FALSE]

\* the loop of generate_embeddings from the i-th chunk on: outcomes[i] is "ok"
\* (a vector), "empty" (embed_text gave []) or "raises" (an exception inside
\* the try block, answered by a warning); chunks_with_embeddings afterwards
RECURSIVE ChunksWithEmbeddings(_, _, _)
ChunksWithEmbeddings(chunks, outcomes, i) ==
    IF i > Len(chunks) THEN <<>>
    ELSE (IF outcomes[i] = "raises" THEN <<>> ELSE <<chunks[i]>>)
             \o ChunksWithEmbeddings(chunks, outcomes, i + 1)

\* generate_embeddings(document_id, chunks): add_chunks answers True for an
\* empty list and False when ChromaDB raises (add_fails); on False the task
\* raises and the status is "error", otherwise it is "completed"
generate_embeddings(cols, docs, idx, d, chunks, outcomes, add_fails) ==
    LET chunks_with_embeddings == ChunksWithEmbeddings(chunks, outcomes, 1)
        success == chunks_with_embeddings = <<>> \/ ~add_fails
    IN  [index |-> IF success
                   THEN add_chunks(idx, "text_chunks", Range(chunks_with_embeddings))
                   ELSE idx,
         doc_columns |-> update_status(cols, docs, d,
                                       IF success THEN "completed" ELSE "error"),
         processed |-> Len(chunks_with_embeddings),
         raised |-> ~success]

\* the chunk lists chunk_text may make of a document: its chunks, any number
\* of them in any order
DocChunkLists(d) ==
    {s \in UNION {[1..n -> ChunkRows(ChunkIds, d)] : n \in 0..Cardinality(ChunkIds)} :
        \A i, j \in 1..Len(s) : i # j => s[i] # s[j]}

\* the process_document task of an uploaded document runs (upload_document
\* queues it once, for the row it has just created)
ProcessDocument(d, chunks, file_exists) ==
    /\ last = Idle
    /\ d \in documents
    /\ ColumnsOf(doc_columns, d).status = "pending"
    /\ LET r == process_document(doc_columns, documents, celery_queue, d, chunks,
                                 file_exists)
       IN  /\ doc_columns' = r.doc_columns
           /\ celery_queue' = r.celery_queue
    /\ UNCHANGED <<ws_manager, engine, produced, redis, index, documents, db_chunks, last>>

\* the generate_embeddings task at the head of the queue runs
GenerateEmbeddings(outcomes, add_fails) ==
    /\ last = Idle
    /\ celery_queue # <<>>
    /\ DOMAIN outcomes = 1..Len(Head(celery_queue).chunks)
    /\ LET task == Head(celery_queue)
           r == generate_embeddings(doc_columns, documents, index, task.document_id,
                                    task.chunks, outcomes, add_fails)
       IN  /\ index' = r.index
           /\ doc_columns' = r.doc_columns
    /\ celery_queue' = Tail(celery_queue)
    /\ UNCHANGED <<ws_manager, engine, produced, redis, documents, db_chunks, last>>

NextIngest ==
    \/ \E d \in DocumentIds : CreateDocument(d)
    \/ \E d \in DocumentIds, file_exists \in BOOLEAN :
           \E chunks \in DocChunkLists(d) : ProcessDocument(d, chunks, file_exists)
    \/ \E add_fails \in BOOLEAN :
           \E outcomes \in UNION {[1..n -> {"ok", "empty", "raises"}] :
                                     n \in 0..Cardinality(ChunkIds)} :
               GenerateEmbeddings(outcomes, add_fails)

SpecIngest == Init /\ [][NextIngest]_vars

----------------------------------------------------------------------------

(* WebSocketManager (services/websocket_manager.py) *)

\* client_subscriptions is a dict, which keeps the order its keys were added
\* in: a sequence of [client_id, subscriptions].  active_connections is read
\* by key only: a set of client ids.
ClientIds == {"a", "b", "c"}

HasEntry(subs, c) == \E i \in 1..Len(subs) : subs[i].client_id = c

\* del self.client_subscriptions[client_id]
RemoveEntry(subs, c) == SelectSeq(subs, LAMBDA e : e.client_id # c)

\* self.client_subscriptions[client_id] = value: a key the dict has keeps its
\* place, a new key goes last
SetEntry(subs, c, value) ==
    IF HasEntry(subs, c)
    THEN [i \in 1..Len(subs) |->
             IF subs[i].client_id = c
             THEN [client_id |-> c, subscriptions |-> value] ELSE subs[i]]
    ELSE Append(subs, [client_id |-> c, subscriptions |-> value])

SubscriptionsOf(subs, c) ==
    UNION {subs[i].subscriptions : i \in {j \in 1..Len(subs) : subs[j].client_id = c}}

\* connect(client_id, websocket): accept() may raise, and connect re-raises
connect(m, c, accept_fails) ==
    IF accept_fails THEN [manager |-> m, raised |-> TRUE]
    ELSE [manager |->
              [active_connections |-> m.active_connections \cup {c},
               client_subscriptions |-> SetEntry(m.client_subscriptions, c, {})],
          raised |-> FALSE]

\* disconnect(client_id)
disconnect(m, c) ==
    [active_connections |-> m.active_connections \ {c},
     client_subscriptions |-> RemoveEntry(m.client_subscriptions, c)]

\* subscribe(client_id, document_id): a client without an entry gets one,
\* connected or not
subscribe(m, c, d) ==
    [m EXCEPT !.client_subscriptions =
        SetEntry(@, c, SubscriptionsOf(@, c) \cup {d})]

\* unsubscribe(client_id, document_id)
unsubscribe(m, c, d) ==
    IF HasEntry(m.client_subscriptions, c)
    THEN [m EXCEPT !.client_subscriptions =
             SetEntry(@, c, SubscriptionsOf(@, c) \ {d})]
    ELSE m

\* send_to_client(client_id, message): nothing for a client that is not
\* connected; a send_json that raises (c \in failing) is answered by
\* disconnect(client_id); never raises
send_to_client(m, c, failing) ==
    IF c \notin m.active_connections THEN [manager |-> m, sent |-> FALSE]
    ELSE IF c \in failing THEN [manager |-> disconnect(m, c), sent |-> FALSE]
    ELSE [manager |-> m, sent |-> TRUE]

\* the loop of send_processing_update over self.client_subscriptions.items(),
\* at its i-th step.  The iterator reads the dict itself: each step first
\* compares the dict's size with the size at the start of the loop and raises
\* RuntimeError ("dictionary changed size during iteration") when they differ,
\* then ends when the entries are exhausted.  The except clause around
\* send_to_client catches nothing, send_to_client does not raise, so the
\* `disconnected` list stays empty and the clean-up loop does nothing.
RECURSIVE SendUpdateFrom(_, _, _, _, _, _)
SendUpdateFrom(m, size, i, document_id, failing, delivered) ==
    IF Len(m.client_subscriptions) # size
    THEN [manager |-> m, delivered |-> delivered, raised |-> TRUE]
    ELSE IF i > size
    THEN [manager |-> m, delivered |-> delivered, raised |-> FALSE]
    ELSE LET entry == m.client_subscriptions[i]
         IN  IF document_id \in entry.subscriptions
             THEN LET r == send_to_client(m, entry.client_id, failing)
                  IN  SendUpdateFrom(r.manager, size, i + 1, document_id, failing,
                                     IF r.sent THEN delivered \cup {entry.client_id}
                                     ELSE delivered)
             ELSE SendUpdateFrom(m, size, i + 1, document_id, failing, delivered)

\* send_processing_update(document_id, progress, status, ...)
send_processing_update(m, document_id, failing) ==
    SendUpdateFrom(m, Len(m.client_subscriptions), 1, document_id, failing, {})

\* the manager's methods as they are called by the /ws endpoint and the tasks
Connect(c, accept_fails) ==
    /\ last = Idle
    /\ ws_manager' = connect(ws_manager, c, accept_fails).manager
    /\ UNCHANGED <<doc_columns, celery_queue, engine, produced, redis, index, documents, db_chunks, last>>

Disconnect(c) ==
    /\ last = Idle
    /\ ws_manager' = disconnect(ws_manager, c)
    /\ UNCHANGED <<doc_columns, celery_queue, engine, produced, redis, index, documents, db_chunks, last>>

Subscribe(c, d) ==
    /\ last = Idle
    /\ ws_manager' = subscribe(ws_manager, c, d)
    /\ UNCHANGED <<doc_columns, celery_queue, engine, produced, redis, index, documents, db_chunks, last>>

Unsubscribe(c, d) ==
    /\ last = Idle
    /\ ws_manager' = unsubscribe(ws_manager, c, d)
    /\ UNCHANGED <<doc_columns, celery_queue, engine, produced, redis, index, documents, db_chunks, last>>

\* send_json raises for the connections in `failing`
SendProcessingUpdate(d, failing) ==
    /\ last = Idle
    /\ LET r == send_processing_update(ws_manager, d, failing)
       IN  /\ ws_manager' = r.manager
           /\ last' = [op |-> "send_processing_update", document_id |-> d,
                       failing |-> failing, before |-> ws_manager,
                       delivered |-> r.delivered, raised |-> r.raised]
    /\ UNCHANGED <<doc_columns, celery_queue, engine, produced, redis, index, documents, db_chunks>>

NextWS ==
    \/ \E c \in ClientIds, accept_fails \in BOOLEAN : Connect(c, accept_fails)
    \/ \E c \in ClientIds : Disconnect(c)
    \/ \E c \in ClientIds, d \in DocumentIds : Subscribe(c, d)
    \/ \E c \in ClientIds, d \in DocumentIds : Unsubscribe(c, d)
    \/ \E d \in DocumentIds :
           \E failing \in SUBSET ws_manager.active_connections :
               SendProcessingUpdate(d, failing)
    \/ Complete

SpecWS == Init /\ [][NextWS]_vars

----------------------------------------------------------------------------

(* Properties *)

\* the calls of one kind among the calls observed
CallsOfKind(calls, kind) ==
    LET IsKind(c) == c[1] = kind IN SelectSeq(calls, IsKind)
CallKinds(calls) == {calls[i][1] : i \in 1..Len(calls)}

\* answer_query ran for the request being answered
Answered == last.op = "query" /\ last.http \notin {400, 422}
\* retrieve_relevant_chunks ran for the request being answered
Retrieved == last.op \in {"query", "retrieve"} /\ last.http \notin {400, 422}
\* ... and found nothing in the cache and got an embedding
RetrievedFromIndex == Retrieved /\ ~last.engine.hit /\ last.env.embed = "ok"

\* the rerank_top_k the handler passes on
EffectiveRerankTopK ==
    IF last.request.rerank_top_k # 0 THEN last.request.rerank_top_k
    ELSE last.request.top_k

\* C1: when the cache holds a result for the query, answer_query returns that
\* result and makes no embedding, search, rerank or LLM call.
C1_CacheHitReturnsCached ==
    (Answered /\ last.engine.hit) =>
        /\ PyDict(last.engine.result) = get_cached_query_result(redis, last.request.query)
        /\ CallKinds(last.engine.calls) \subseteq {"cache_get"}

\* C2: a run of answer_query that went through the pipeline (past the cache,
\* to generation) has stored its result in the cache under the query text.
C2_AnswerIsCached ==
    (Answered /\ ~last.engine.hit /\ last.engine.reranked # PyNone) =>
        get_cached_query_result(redis, last.request.query) = PyDict(last.engine.result)

\* C3: when DELETE /documents/{id} has deleted a document, no collection of
\* the vector index holds a chunk of it and no query:* key is left.
C3_DeleteRemovesVectorsAndCache ==
    (last.op = "delete_document" /\ last.http = 200) =>
        /\ \A coll \in DOMAIN index :
               \A c \in index[coll] : DocOf(c) # last.document_id
        /\ RedisKeys(redis, "query") = {}

\* C4: when retrieval yields no chunk, answer_query returns the fixed
\* no-information response with no citation and zero counts, and neither the
\* reranker nor the LLM is called.
C4_NoChunksShortCircuit ==
    (Answered /\ IsFalsy(last.engine.retrieved)) =>
        /\ last.engine.result.response
               = "I couldn't find relevant information to answer your question."
        /\ last.engine.result.citations = <<>>
        /\ last.engine.result.metadata.retrieved_chunks = 0
        /\ last.engine.result.metadata.reranked_chunks = 0
        /\ CallKinds(last.engine.calls) \cap {"rerank", "predict", "llm"} = {}

\* C4 witness: the index was searched (a collection failed) and nothing came back
C4_Witness ==
    /\ Answered /\ IsFalsy(last.engine.retrieved)
    /\ last.env.embed = "ok"
    /\ last.env.failing # {}
    /\ \E c \in index["text_chunks"] : TRUE
    /\ Len(CallsOfKind(last.engine.calls, "search")) = Len(default_collections)

\* C5: a request with a non-empty query is answered 200 with a body of the
\* contract's shape, whatever the outcome.
C5_ResponseShape ==
    (last.op = "query" /\ last.request.query \in Queries) =>
        /\ last.http = 200
        /\ {"response", "citations", "metadata"} \subseteq DOMAIN last.body
        /\ {"retrieved_chunks", "reranked_chunks", "query_length"}
               \subseteq DOMAIN last.body.metadata
        /\ \A i \in 1..Len(last.body.citations) :
               {"index", "source", "page", "content_preview"}
                   \subseteq DOMAIN last.body.citations[i]

\* the models LLMService.generate posted to, and the outcome of its first
\* request, for the operation being answered
LLMCalls ==
    IF last.op = "generate" THEN last.calls
    ELSE CallsOfKind(last.engine.calls, "llm")
LLMOuts == IF last.op = "generate" THEN last.outs ELSE last.env.llm
GenerateRan ==
    \/ last.op = "generate"
    \/ Answered /\ "llm" \in CallKinds(last.engine.calls)

\* C6: generate makes at most two model calls; a successful first call is the
\* only one; a failed call to the primary model is followed by exactly one call,
\* to the fallback model.
C6_FallbackOnce ==
    GenerateRan =>
        /\ Len(LLMCalls) \in {1, 2}
        /\ LLMOuts[1] = "ok" => Len(LLMCalls) = 1
        /\ (LLMOuts[1] = "fail" /\ LLMCalls[1][2] = primary_model) =>
               LLMCalls = << <<"llm", primary_model>>, <<"llm", fallback_model>> >>

\* C6 witness: answer_query's generation failed on the primary model and the
\* fallback was called
C6_Witness ==
    /\ Answered /\ last.env.llm = <<"fail", "fail">>
    /\ LLMCalls = << <<"llm", primary_model>>, <<"llm", fallback_model>> >>

\* C7: when both models fail, answer_query returns normally an apology (a
\* response that is not empty) with the citations of the context chunks.
C7_ApologyWithCitations ==
    (Answered /\ Len(LLMCalls) = 2 /\ last.env.llm = <<"fail", "fail">>) =>
        /\ last.engine.result # ErrorResponse
        /\ last.engine.result.response # ""
        /\ last.engine.result.citations = extract_citations(last.engine.reranked.items)

\* C8: answer_query calls the reranker exactly when more chunks were retrieved
\* than rerank_top_k; otherwise the retrieved chunks go on unchanged.
C8_RerankOnlyAboveTopK ==
    (Answered /\ ~last.engine.hit /\ ~IsFalsy(last.engine.retrieved)) =>
        /\ "rerank" \in CallKinds(last.engine.calls)
               <=> PyLen(last.engine.retrieved) > EffectiveRerankTopK
        /\ PyLen(last.engine.retrieved) <= EffectiveRerankTopK
               => last.engine.reranked = last.engine.retrieved

\* what the search of one collection gave during the retrieval being answered,
\* tagged with the collection
TaggedResults(coll) ==
    LET found == search(index, coll, <<last.request.query>>, last.request.top_k,
                        coll \in last.env.failing)
    IN  [j \in 1..Len(found) |-> SetItem(found[j], "source_collection", coll)]

\* the concatenation of the collections' results in iteration order
Concatenated ==
    TaggedResults(default_collections[1]) \o TaggedResults(default_collections[2])
        \o TaggedResults(default_collections[3]) \o TaggedResults(default_collections[4])

PosIn(s, x) == CHOOSE i \in 1..Len(s) : s[i] = x

\* C9: on a cache miss with an embedding, the chunks returned are the
\* concatenation of the collections' tagged results, sorted by descending
\* similarity with equal similarities in concatenation order, cut to
\* top_k * number of collections.
C9_MergedSortedStable ==
    RetrievedFromIndex =>
        LET R == last.engine.retrieved.items
            cat == Concatenated
        IN  /\ last.engine.retrieved.kind = "list"
            /\ Len(R) = Min(Len(cat), last.request.top_k * Len(default_collections))
            /\ Range(R) \subseteq Range(cat)
            /\ Cardinality(Range(R)) = Len(R)
            /\ \A i, j \in 1..Len(R) : i < j =>
                   \/ R[i].similarity > R[j].similarity
                   \/ /\ R[i].similarity = R[j].similarity
                      /\ PosIn(cat, R[i]) < PosIn(cat, R[j])
            /\ \A x \in Range(cat) \ Range(R) : \A i \in 1..Len(R) :
                   \/ R[i].similarity > x.similarity
                   \/ /\ R[i].similarity = x.similarity
                      /\ PosIn(cat, R[i]) < PosIn(cat, x)
            /\ \A i \in 1..Len(R) : R[i].id \in index[R[i].source_collection]

\* C9 witness: results of two collections tie, and a result of a later
\* collection is sorted before one of an earlier collection
C9_Witness ==
    /\ RetrievedFromIndex
    /\ LET R == last.engine.retrieved.items
       IN  /\ Len(R) = 3
           /\ R[1].source_collection = "text_chunks"
           /\ R[2].source_collection = "image_chunks"
           /\ R[1].similarity = R[2].similarity
           /\ R[3].source_collection = "text_chunks"

\* C10: when the search of a collection fails, every collection is still
\* searched, every result of the other collections is in the merged list, the
\* failing collection contributes nothing and the caller gets a list.
C10_FailureIsLocal ==
    RetrievedFromIndex =>
        LET R == last.engine.retrieved.items
            emb == <<last.request.query>>
        IN  /\ last.engine.retrieved.kind = "list"
            /\ last.op = "retrieve" => last.http = 200
            /\ \A coll \in Range(default_collections) :
                   /\ <<"search", coll>> \in Range(last.engine.calls)
                   /\ coll \notin last.env.failing =>
                          \A c \in Range(ChromaQuery(index[coll], emb, last.request.top_k)) :
                              \E i \in 1..Len(R) :
                                  R[i].id = c /\ R[i].source_collection = coll
                   /\ coll \in last.env.failing =>
                          \A i \in 1..Len(R) : R[i].source_collection # coll

\* C10 witness: the first collection fails with chunks in it, and the results
\* of a later collection are returned
C10_Witness ==
    /\ RetrievedFromIndex
    /\ last.env.failing = {"text_chunks"}
    /\ index["text_chunks"] # {}
    /\ Len(last.engine.retrieved.items) > 0

\* C11: when the embedding of the query fails, answer_query returns the
\* empty-retrieval answer (fixed message, no citation, zero counts), not an
\* error, and makes no search, rerank or LLM call.
C11_EmbedFailureIsEmptyRetrieval ==
    (Answered /\ ~last.engine.hit /\ last.env.embed = "fail") =>
        /\ last.engine.result # ErrorResponse
        /\ last.engine.result.response
               = "I couldn't find relevant information to answer your question."
        /\ last.engine.result.citations = <<>>
        /\ last.engine.result.metadata.retrieved_chunks = 0
        /\ last.engine.result.metadata.reranked_chunks = 0
        /\ CallKinds(last.engine.calls) = {"cache_get", "embed"}

\* C11 witness: the embedding fails while the index holds chunks of two
\* collections and the cache holds nothing for the query
C11_Witness ==
    /\ Answered /\ ~last.engine.hit /\ last.env.embed = "fail"
    /\ index["text_chunks"] # {} /\ index["image_chunks"] # {}
    /\ <<"embed", last.request.query>> \in Range(last.engine.calls)

\* the ids of the chunks fed to generation, in order
FedToGeneration ==
    IF last.engine.reranked.kind = "list"
    THEN [i \in 1..Len(last.engine.reranked.items) |-> last.engine.reranked.items[i].id]
    ELSE <<>>

\* C12: the context string built for generation is at most max_chars
\* characters long, markers and separators included, and holds whole chunks: a
\* prefix of the chunks fed to generation.
C12_ContextWithinBudget ==
    (Answered /\ FedToGeneration # <<>>) =>
        /\ last.engine.context.length <= max_chars
        /\ Len(last.engine.context.parts) <= Len(FedToGeneration)
        /\ last.engine.context.parts
               = Prefix(FedToGeneration, Len(last.engine.context.parts))

\* C13: the citations of an answer are those of the chunks in the context
\* built for generation, one each and none for a chunk the budget left out;
\* citation N is of the chunk marked [Source N: ...].
C13_CitationsMatchContext ==
    (Answered /\ FedToGeneration # <<>>) =>
        LET citations == last.engine.result.citations
            parts == last.engine.context.parts
        IN  /\ Len(citations) = Len(parts)
            /\ \A n \in 1..Len(citations) :
                   /\ citations[n].index = n
                   /\ citations[n].content_preview[1] = parts[n]

\* C14: in every result of answer_query the citation indices are 1, 2, ...,
\* len(citations) in list order, and there are at most as many citations as
\* chunks fed to generation (the reranked_chunks of the metadata).
C14_CitationIndices ==
    Answered =>
        LET citations == last.engine.result.citations
            metadata == last.engine.result.metadata
        IN  /\ \A n \in 1..Len(citations) : citations[n].index = n
            /\ Len(citations) <= Len(FedToGeneration)
            /\ "reranked_chunks" \in DOMAIN metadata =>
                   /\ metadata.reranked_chunks = Len(FedToGeneration)
                   /\ Len(citations) <= metadata.reranked_chunks

\* C14 witness: the cross-encoder dropped the first of two retrieved chunks,
\* and the chunk that was second is cited with index 1
C14_Witness ==
    /\ Answered /\ last.env.rerank.mode = "ok"
    /\ "retrieved_chunks" \in DOMAIN last.engine.result.metadata
    /\ last.engine.result.metadata.retrieved_chunks = 2
    /\ last.engine.result.metadata.reranked_chunks = 1
    /\ Len(last.engine.result.citations) = 1
    /\ FedToGeneration[1] = last.engine.retrieved.items[2].id

\* a step of the cross-store deletion being answered failed: delete_chunks
\* failed in a collection, or invalidate_cache failed
DeletionStepFailed ==
    /\ last.op = "delete_with_embeddings"
    /\ \/ last.denv.vector_store /\ last.count > 0 /\ last.denv.failing # {}
       \/ last.success /\ last.denv.cache_manager /\ last.denv.cache_fails

\* C15: when a step of a cross-store deletion fails while others succeed, the
\* result returned reports the failure: it is not the plain success.
C15_PartialFailureReported ==
    DeletionStepFailed => ~last.success

\* C16: every chunk chunk_text returns has at most chunk_size tokens.
C16_ChunkWithinSize ==
    last.op = "chunk_text" =>
        \A k \in 1..Len(last.chunks) :
            last.chunks[k].token_count <= engine.chunk_size

\* C17: every chunk of chunk_text after the first shares exactly
\* chunk_overlap tokens with the tail of its predecessor, by the offsets
\* chunk_start_word / chunk_end_word recorded.
C17_OverlapExact ==
    last.op = "chunk_text" =>
        \A k \in 2..Len(last.chunks) :
            last.chunks[k - 1].metadata.chunk_end_word
                - last.chunks[k].metadata.chunk_start_word = engine.chunk_overlap

\* C18: chunk_text returns no chunk for a text of fewer than 10 tokens, and
\* every chunk it returns has at least 10 tokens.
C18_MinimumTokens ==
    last.op = "chunk_text" =>
        /\ SplitLen(last.text) < 10 => last.chunks = <<>>
        /\ \A k \in 1..Len(last.chunks) :
               /\ last.chunks[k].token_count >= 10
               /\ SplitLen(last.chunks[k].content) >= 10

\* C18 witness: a text of fewer than 10 tokens but at least 10 characters
\* (it passes the length test on entry) gave no chunk
C18_Witness ==
    /\ last.op = "chunk_text"
    /\ SplitLen(last.text) \in 1..9
    /\ StrippedLen(last.text) >= 10
    /\ last.chunks = <<>>

\* the position a chunk was cut at: the position given to _generate_chunk_id
PositionOf(chunk) ==
    CASE chunk.chunk_type = "text" -> chunk.metadata.chunk_start_word
      [] chunk.chunk_type = "table" -> chunk.metadata.table_start_row
      [] OTHER -> 0

\* the chunks of a call of chunk_text, chunk_table or chunk_composite, each
\* with its document id and position
PositionedChunks(call) ==
    IF call.op \in {"chunk_text", "chunk_table", "chunk_composite"}
    THEN {[document_id |-> call.document_id,
           position |-> PositionOf(call.chunks[k]),
           chunk_id |-> call.chunks[k].chunk_id] : k \in 1..Len(call.chunks)}
    ELSE {}

\* C19: two chunks of an engine that differ in document id or in position
\* have different chunk ids.
C19_ChunkIdsDistinct ==
    \A a, b \in PositionedChunks(produced) \cup PositionedChunks(last) :
        (a.document_id # b.document_id \/ a.position # b.position)
            => a.chunk_id # b.chunk_id

\* C20: every chunk returned by chunk_text, chunk_table, chunk_image and
\* chunk_composite has token_count > 0 and a content that is not blank.
C20_ChunksNotEmpty ==
    last.op \in {"chunk_text", "chunk_table", "chunk_image", "chunk_composite"} =>
        \A k \in 1..Len(last.chunks) :
            /\ last.chunks[k].token_count > 0
            /\ ContentTokens(last.chunks[k].content) > 0

\* C21: validate_chunk_boundaries returns false exactly when the list holds
\* two chunks with the same id or a chunk whose content is empty (nothing
\* left after trimming); a chunk of fewer than 5 tokens does not change that.
C21_ValidateIffDuplicateOrEmpty ==
    last.op = "validate_chunk_boundaries" =>
        LET chunks == last.chunk_list
            duplicate == \E i, j \in 1..Len(chunks) :
                             i # j /\ chunks[i].chunk_id = chunks[j].chunk_id
            empty == \E i \in 1..Len(chunks) : StrippedLen(chunks[i].content) = 0
        IN  ~last.valid <=> (duplicate \/ empty)

\* the candidates of the rerank call being answered that pass its threshold
Eligible ==
    {i \in 1..Len(last.chunks.items) :
        last.renv.scores[last.chunks.items[i].id] >= last.threshold}

\* C22: with the scoring model available, rerank returns candidates whose
\* score is at least the threshold, each with its relevance_score, ordered by
\* non-increasing score and at most top_k of them; a candidate that passes
\* the threshold is left out only by the truncation, and none with a higher
\* score than a returned one is left out.
C22_RerankScoredSortedFiltered ==
    (last.op = "rerank" /\ last.renv.mode = "ok" /\ last.chunks.items # <<>>) =>
        LET out == last.value.items
            In(i) == last.chunks.items[i]
            Score(i) == last.renv.scores[In(i).id]
            Returned(i) == \E k \in 1..Len(out) : out[k].id = In(i).id
        IN  /\ ~last.raised
            /\ Len(out) = Min(last.top_k, Cardinality(Eligible))
            /\ \A k \in 1..Len(out) :
                   /\ \E i \in Eligible :
                          out[k] = SetItem(In(i), "relevance_score", Score(i))
                   /\ out[k].relevance_score >= last.threshold
                   /\ \A m \in 1..Len(out) : k # m => out[k].id # out[m].id
                   /\ k > 1 => out[k - 1].relevance_score >= out[k].relevance_score
            /\ \A i \in 1..Len(last.chunks.items) :
                   ~Returned(i) =>
                       \A k \in 1..Len(out) : Score(i) <= out[k].relevance_score

\* C22 witness: of three candidates one is below the threshold, and of the two
\* that pass it one is cut by top_k
C22_Witness ==
    /\ last.op = "rerank" /\ last.renv.mode = "ok"
    /\ Len(last.chunks.items) = 3
    /\ Cardinality(Eligible) = 2
    /\ last.top_k = 1
    /\ Len(last.value.items) = 1

\* the scoring capability is unavailable for the query being answered, which
\* retrieved a list of candidates
ScoringUnavailable ==
    /\ Answered
    /\ last.env.rerank.mode \in {"no_model", "raises"}
    /\ last.engine.retrieved.kind = "list"
    /\ last.engine.retrieved.items # <<>>

\* C23: when the model is not loaded or scoring raises, the rerank step hands
\* on the first rerank_top_k candidates in their order and unchanged (no
\* relevance_score), nothing is raised, and generation is reached: the LLM is
\* called with them.
C23_RerankFallback ==
    ScoringUnavailable =>
        /\ last.engine.reranked
               = PyList(Prefix(last.engine.retrieved.items, EffectiveRerankTopK))
        /\ \A k \in 1..Len(last.engine.reranked.items) :
               "relevance_score" \notin DOMAIN last.engine.reranked.items[k]
        /\ last.engine.result # ErrorResponse
        /\ "rerank" \in CallKinds(last.engine.calls)
        /\ "llm" \in CallKinds(last.engine.calls)
        /\ Len(last.engine.result.citations) = Len(last.engine.reranked.items)

\* C23 witness: predict raised on two candidates and the first of them was
\* handed on to generation
C23_Witness ==
    /\ ScoringUnavailable
    /\ last.env.rerank.mode = "raises"
    /\ <<"predict", "">> \in Range(last.engine.calls)
    /\ Len(last.engine.retrieved.items) = 2
    /\ FedToGeneration = <<last.engine.retrieved.items[1].id>>

\* what a method of CacheManager returns for a miss or when it did nothing
MissValue(op) ==
    CASE op \in {"cache_embedding", "cache_query_result", "clear_all"} -> FALSE
      [] op \in {"get_cached_embedding", "get_cached_query_result"} -> PyNone
      [] op = "invalidate_cache" -> 0
      [] op = "get_cache_stats" -> PyDict(<<>>)
      [] OTHER -> PyNone

\* C24: with Redis failing, every method of CacheManager returns its miss /
\* no-op value without raising and leaves the keyspace alone (so the lookup
\* of retrieve_relevant_chunks reads a miss), and the CacheManager can still
\* be constructed.
C24_CacheDownNeverBlocks ==
    ("fails" \in DOMAIN last /\ last.fails) =>
        /\ ~last.raised
        /\ last.value = MissValue(last.op)
        /\ redis = last.before

\* the keyspace differs from the one before the call at most in `key`
OnlyKeyWritten(key) ==
    /\ DOMAIN redis = DOMAIN last.before \cup {key}
    /\ \A k \in DOMAIN last.before : k # key => redis[k] = last.before[k]

\* C25: a cache write makes the value written the one a read of its text or
\* query returns and touches no other entry; a read returns what the entry
\* holds and changes nothing (so, with no expiry, invalidation or clear in
\* between, a read returns the most recent write); writing a value the entry
\* already holds leaves the keyspace as it was.
C25_LastWriteWins ==
    ("fails" \in DOMAIN last /\ ~last.fails) =>
        /\ last.op = "cache_embedding" =>
               /\ last.value = TRUE
               /\ get_cached_embedding(redis, last.args[1], FALSE).value
                      = PyList(last.args[2])
               /\ OnlyKeyWritten(GetKey("embedding", last.args[1]))
               /\ get_cached_embedding(last.before, last.args[1], FALSE).value
                      = PyList(last.args[2]) => redis = last.before
        /\ last.op = "cache_query_result" =>
               /\ last.value = TRUE
               /\ get_cached_query_result(redis, last.args[1]) = last.args[2]
               /\ OnlyKeyWritten(GetKey("query", last.args[1]))
               /\ get_cached_query_result(last.before, last.args[1]) = last.args[2]
                      => redis = last.before
        /\ last.op = "get_cached_embedding" =>
               /\ redis = last.before
               /\ last.value = get_cached_embedding(redis, last.args[1], FALSE).value
        /\ last.op = "get_cached_query_result" =>
               /\ redis = last.before
               /\ last.value = get_cached_query_result(redis, last.args[1])

\* C25 witness: a vector is written over another vector cached for the same
\* text, while a query result is cached for the same string
C25_Witness ==
    /\ last.op = "cache_embedding" /\ ~last.fails
    /\ GetKey("embedding", last.args[1]) \in DOMAIN last.before
    /\ JsonLoads(last.before[GetKey("embedding", last.args[1])]) # last.args[2]
    /\ GetKey("query", last.args[1]) \in DOMAIN last.before

\* C26: invalidate_cache("query:*") removes every query entry present when
\* it is called, returns how many it removed, and leaves every embedding
\* entry as it was.
C26_InvalidateQueryOnly ==
    (last.op = "invalidate_cache" /\ ~last.fails /\ last.args[1] = "query") =>
        /\ RedisKeys(redis, "query") = {}
        /\ last.value = Cardinality({k \in DOMAIN last.before : k[1] = "query"})
        /\ DOMAIN redis = {k \in DOMAIN last.before : k[1] = "embedding"}
        /\ \A k \in DOMAIN redis : redis[k] = last.before[k]

\* C26 witness: two query entries are removed while an embedding entry for
\* the string of one of them stays
C26_Witness ==
    /\ last.op = "invalidate_cache" /\ ~last.fails /\ last.args[1] = "query"
    /\ last.value = 2
    /\ \E q \in Queries :
           /\ GetKey("query", q) \in DOMAIN last.before
           /\ GetKey("embedding", q) \in DOMAIN redis

C28_RetrievedReachesGeneration ==
    (Answered /\ last.engine.retrieved.kind = "list"
              /\ last.engine.retrieved.items # <<>>
              /\ EffectiveRerankTopK >= 1) =>
        /\ FedToGeneration # <<>>
        /\ "llm" \in CallKinds(last.engine.calls)
        /\ (last.engine.result.response = "" /\ last.engine.result.citations = <<>>)
               => last.env.llm = <<"fail", "fail">>

\* C29: a document whose status is "completed" has as many vectors in the
\* text_chunks collection as its row counts in text_chunks and total_chunks:
\* no chunk counted was dropped on the way.
C29_CompletedMeansAllIndexed ==
    \A d \in documents :
        ColumnsOf(doc_columns, d).status = "completed" =>
            LET indexed == Cardinality({c \in index["text_chunks"] : DocOf(c) = d})
            IN  /\ indexed = ColumnsOf(doc_columns, d).text_chunks
                /\ indexed = ColumnsOf(doc_columns, d).total_chunks

\* the clients send_to_client is called for: subscribed to the document when
\* the update is sent, and connected
Addressed ==
    {c \in last.before.active_connections :
        last.document_id \in SubscriptionsOf(last.before.client_subscriptions, c)}

\* C30: send_processing_update delivers the update to every subscribed client
\* whose connection accepts it, whatever happens to the other sends; a client
\* whose send fails is gone from active_connections and client_subscriptions
\* afterwards; the call does not raise.
C30_UpdateReachesAllAccepting ==
    last.op = "send_processing_update" =>
        /\ ~last.raised
        /\ \A c \in Addressed \ last.failing : c \in last.delivered
        /\ \A c \in Addressed \cap last.failing :
               /\ c \notin ws_manager.active_connections
               /\ ~HasEntry(ws_manager.client_subscriptions, c)

====
